---- MODULE Spec2Model ----
(***************************************************************************)
(* TechStore: the sale / credit / payment workflow (VentaService,          *)
(* VentaDAO, ProductoDAO, CreditoDAO) and the authentication workflow      *)
(* (AuthService, UsuarioDAO, BitacoraDAO) over the relational store.       *)
(* The web server (app.py) keeps the sessions in the SESSIONS map and      *)
(* guards its pages by session and level.                                  *)
(*                                                                         *)
(* Every DAO method opens its own connection (config/db_config.py), so a   *)
(* transaction never spans two DAO calls.  The rows a connection has       *)
(* written and not yet committed are kept in tx[w]; conn.commit() moves    *)
(* them to the store, conn.close() without commit drops them.              *)
(* Money amounts are integers (a unit of currency); Oracle NUMBER columns  *)
(* and the products quantity * price are exact at this scale.              *)
(***************************************************************************)
EXTENDS Integers, Sequences, FiniteSets, TLC

\* ---------------------------------------------------------------- bounds
MaxStock == 2
MaxLineas == 2
MaxPagos == 2
MaxMonto == 2
MaxUsuarios == 2
MaxSesiones == 2
MaxReloj == 4

\* the rows of PRODUCTOS; the ids a caller may name add one id with no row
Productos == {1, 2}
IdsProducto == Productos \cup {3}
Cantidades == 0..MaxStock
\* two request handlers
Workers == {1, 2}
Fechas == {"2025-12-31"}
\* the ids a payment may name: the first credit and one id with no row
IdsCredito == {1, 2}
Montos == (-1)..MaxMonto

\* what a caller may type as username and password
Usernames == {"admin", "ADMIN", "ana"}
Passwords == {"admin123", "otra"}
Estados == {"ACTIVO", "INACTIVO"}
Roles == {1, 3}

Item == [id_producto : IdsProducto, cantidad : Cantidades]
ItemLists == UNION {[1..n -> Item] : n \in 0..MaxLineas}
\* the sales and the line lists of the specification with deletions
IdsVenta == {1, 2}
ItemListsBorrado ==
  {<<[id_producto |-> 1, cantidad |-> 1]>>,
   <<[id_producto |-> 1, cantidad |-> 1], [id_producto |-> 2, cantidad |-> 1]>>}
\* calls of at most one line, for the specifications that follow several calls
ItemListsCortas == {<<>>} \cup {<<i>> : i \in Item}

VARIABLES
  stock,      \* PRODUCTOS.STOCK, by ID_PRODUCTO
  precio,     \* PRODUCTOS.PRECIO_VENTA, by ID_PRODUCTO
  ventas,     \* committed rows of VENTAS
  detalles,   \* committed rows of DETALLE_VENTAS
  creditos,   \* committed rows of CREDITOS
  pagos,      \* committed rows of PAGOS
  seq,        \* the sequences SEQ_VENTA, SEQ_DETALLE_VENTA, SEQ_CREDITO, SEQ_PAGO, ...
  pc,         \* position of each worker in the call it is running
  req,        \* arguments of the call
  validados,  \* productos_validados: (item, producto read at validation)
  idx,        \* loop index of the running for-loop
  venta,      \* the in-memory Venta object of the call
  tx,         \* rows written by the open connection, not yet committed
  res,        \* what the call returned or raised
  previo,     \* the store as it was when the call was issued
  usuarios,   \* committed rows of USUARIOS
  bitacora,   \* committed rows of BITACORA_SESION
  reloj,      \* SYSDATE
  llamada,    \* the last AuthService call: its arguments and what it returned
  sesiones,   \* app.py SESSIONS: session id -> Session
  uuids,      \* how many uuid4 values _create_session has drawn
  http        \* the last HTTP request handled and the response sent

dbVars == <<stock, precio, ventas, detalles, creditos, pagos, seq>>
authVars == <<usuarios, bitacora, reloj, llamada, sesiones, uuids, http>>
vars == <<stock, precio, ventas, detalles, creditos, pagos, seq,
          pc, req, validados, idx, venta, tx, res, previo,
          usuarios, bitacora, reloj, llamada, sesiones, uuids, http>>

\* ------------------------------------------------------------ empty values
NoReq == [tipo |-> "none", items |-> <<>>, fecha_vencimiento |-> "",
          id_credito |-> 0, monto |-> 0, id_venta |-> 0]
NoVenta == [id_venta |-> 0, total |-> 0, es_credito |-> FALSE, detalles |-> <<>>]
NoTx == [ventas |-> {}, detalles |-> {}, pagos |-> {}, saldo_restante |-> 0]
NoRes == [estado |-> "none", error |-> "", id_venta |-> 0, id_credito |-> 0,
          id_pago |-> 0]
NoPrevio == [stock |-> <<>>, precio |-> <<>>, ventas |-> {}, detalles |-> {},
             creditos |-> {}, pagos |-> {}]

\* no Usuario / no id: None
Ninguno == 0
NoLlamada == [op |-> "none", username |-> "", password |-> "",
              usuario |-> Ninguno, id_bitacora |-> Ninguno, antes |-> {}]

\* no request handled yet
NoHttp == [ruta |-> "", sid |-> Ninguno, status |-> Ninguno, location |-> "",
           cuerpo |-> ""]

Snapshot == [stock |-> stock, precio |-> precio, ventas |-> ventas,
             detalles |-> detalles, creditos |-> creditos, pagos |-> pagos]

\* ------------------------------------------------------------ pure helpers
\* a check that lets a quantity of 0 through
CantidadInvalida_SoloNegativa(cantidad) == cantidad < 0

\* venta_service.py:51  if cantidad <= 0: raise ValueError
CantidadInvalida(cantidad) == cantidad <= 0

\* producto_dao.py:52  obtener_por_id: the row, or None
ProductoExiste(id_producto) == id_producto \in Productos

ObtenerProducto(id_producto) ==
  [id_producto |-> id_producto, stock |-> stock[id_producto],
   precio_venta |-> precio[id_producto]]

\* a stock check that is off by one
StockInsuficiente_Holgado(producto, cantidad) == producto.stock < cantidad - 1

\* venta_service.py:57  if producto.stock < cantidad: raise ValueError
StockInsuficiente(producto, cantidad) == producto.stock < cantidad

\* a line whose subtotal forgets the quantity
ConstruirDetalle_SinCantidad(v) ==
  [id_producto |-> v.producto.id_producto,
   cantidad |-> v.item.cantidad,
   precio_unitario |-> v.producto.precio_venta,
   subtotal |-> v.producto.precio_venta]

\* venta_service.py:75-85  one DetalleVenta of _construir_detalles
ConstruirDetalle(v) ==
  [id_producto |-> v.producto.id_producto,
   cantidad |-> v.item.cantidad,
   precio_unitario |-> v.producto.precio_venta,
   subtotal |-> v.item.cantidad * v.producto.precio_venta]

\* venta_service.py:66-86
ConstruirDetalles(vs) == [i \in 1..Len(vs) |-> ConstruirDetalle(vs[i])]

RECURSIVE SumaDetalles(_)
\* venta_dao.py:73  sum(d.cantidad * d.precio_unitario for d in venta.detalles)
SumaDetalles(ds) ==
  IF ds = <<>> THEN 0
  ELSE Head(ds).cantidad * Head(ds).precio_unitario + SumaDetalles(Tail(ds))

\* venta_dao.py:72-73  the total is computed only when it comes as 0
TotalVenta(v) ==
  IF v.total = 0 /\ v.detalles # <<>> THEN SumaDetalles(v.detalles) ELSE v.total

\* venta_dao.py:145-146  _insertar_detalle fills a subtotal that comes as 0
SubtotalDetalle(d) ==
  IF d.subtotal = 0 THEN d.cantidad * d.precio_unitario ELSE d.subtotal

\* a stock update that takes one unit, whatever the quantity
NuevoStock_UnaUnidad(producto, cantidad) == producto.stock - 1

\* a stock update that subtracts from the stock of the row as it is now,
\* not from the stock that was validated
NuevoStock_SobreFila(producto, cantidad) == stock[producto.id_producto] - cantidad

\* venta_service.py:97  nuevo_stock = int(producto.stock) - cantidad
NuevoStock(producto, cantidad) == producto.stock - cantidad

\* a balance that is not clamped at 0
SaldoRestante_SinTope(saldo_pendiente_actual, monto) == saldo_pendiente_actual - monto

\* credito_dao.py:190-193
SaldoRestante(saldo_pendiente_actual, monto) ==
  IF saldo_pendiente_actual - monto < 0 THEN 0 ELSE saldo_pendiente_actual - monto

\* a status that is "PAGADO" one unit too early
NuevoEstado_PagadoBajoUno(saldo_restante) ==
  IF saldo_restante <= 1 THEN "PAGADO" ELSE "VIGENTE"

\* a status that never becomes "PAGADO"
NuevoEstado_SiempreVigente(saldo_restante) == "VIGENTE"

\* credito_dao.py:215
NuevoEstado(saldo_restante) == IF saldo_restante = 0 THEN "PAGADO" ELSE "VIGENTE"

\* ------------------------------------------------------------------- Init
\* the store and the server but for the USUARIOS rows
InitSinUsuarios ==
  /\ stock \in [Productos -> 0..MaxStock]
  /\ precio = [p \in Productos |-> p + 1]
  /\ ventas = {}
  /\ detalles = {}
  /\ creditos = {}
  /\ pagos = {}
  /\ seq = [venta |-> 0, detalle |-> 0, credito |-> 0, pago |-> 0,
            usuario |-> 0, bitacora |-> 0]
  /\ pc = [w \in Workers |-> "idle"]
  /\ req = [w \in Workers |-> NoReq]
  /\ validados = [w \in Workers |-> <<>>]
  /\ idx = [w \in Workers |-> 0]
  /\ venta = [w \in Workers |-> NoVenta]
  /\ tx = [w \in Workers |-> NoTx]
  /\ res = [w \in Workers |-> NoRes]
  /\ previo = [w \in Workers |-> NoPrevio]
  /\ bitacora = {}
  /\ reloj = 1
  /\ llamada = NoLlamada
  /\ sesiones = <<>>
  /\ uuids = 0
  /\ http = NoHttp

Init == InitSinUsuarios /\ usuarios = {}

\* a call ends by raising: the connection is closed without commit
Falla(w, error) ==
  /\ pc' = [pc EXCEPT ![w] = "failed"]
  /\ tx' = [tx EXCEPT ![w] = NoTx]
  /\ res' = [res EXCEPT ![w] = [NoRes EXCEPT !.estado = "error", !.error = error]]

\* --------------------------------------------------- sale registration
\* registrar_venta_contado / registrar_venta_credito are called
LlamarVentaCon(w, tipos, listas) ==
  /\ pc[w] = "idle"
  /\ \E tipo \in tipos, items \in listas, f \in Fechas :
       req' = [req EXCEPT ![w] = [NoReq EXCEPT !.tipo = tipo, !.items = items,
                 !.fecha_vencimiento = IF tipo = "credito" THEN f ELSE ""]]
  /\ pc' = [pc EXCEPT ![w] = "validar"]
  /\ idx' = [idx EXCEPT ![w] = 1]
  /\ validados' = [validados EXCEPT ![w] = <<>>]
  /\ previo' = [previo EXCEPT ![w] = Snapshot]
  /\ UNCHANGED <<authVars, dbVars, venta, tx, res>>

\* the first registration of the store, cash or credit, with any line list
LlamarVenta(w) ==
  /\ seq.venta = 0
  /\ LlamarVentaCon(w, {"contado", "credito"}, ItemLists)

\* the first registration of the store, a credit sale
LlamarVentaCredito(w) ==
  /\ seq.venta = 0
  /\ LlamarVentaCon(w, {"credito"}, ItemListsCortas)

\* a registration issued while the other worker's may be running
LlamarVentaConc(w) == LlamarVentaCon(w, {"contado", "credito"}, ItemListsCortas)

\* one iteration of the loop of _validar_y_cargar_productos
ValidarItem(w) ==
  /\ pc[w] = "validar"
  /\ idx[w] <= Len(req[w].items)
  /\ LET item == req[w].items[idx[w]] IN
       IF CantidadInvalida(item.cantidad)
       THEN Falla(w, "cantidad_invalida") /\ UNCHANGED <<validados, idx>>
       ELSE IF ~ProductoExiste(item.id_producto)
       THEN Falla(w, "producto_no_existe") /\ UNCHANGED <<validados, idx>>
       ELSE IF StockInsuficiente(ObtenerProducto(item.id_producto), item.cantidad)
       THEN Falla(w, "stock_insuficiente") /\ UNCHANGED <<validados, idx>>
       ELSE /\ validados' = [validados EXCEPT ![w] =
                 Append(@, [item |-> item,
                            producto |-> ObtenerProducto(item.id_producto)])]
            /\ idx' = [idx EXCEPT ![w] = @ + 1]
            /\ UNCHANGED <<pc, tx, res>>
  /\ UNCHANGED <<authVars, dbVars, req, venta, previo>>

\* _construir_detalles, then Venta(..., es_credito, detalles)
ConstruirVenta(w) ==
  /\ pc[w] = "validar"
  /\ idx[w] > Len(req[w].items)
  /\ venta' = [venta EXCEPT ![w] =
       [NoVenta EXCEPT !.es_credito = (req[w].tipo = "credito"),
                       !.detalles = ConstruirDetalles(validados[w])]]
  /\ pc' = [pc EXCEPT ![w] = "crear_venta"]
  /\ UNCHANGED <<authVars, dbVars, req, validados, idx, tx, res, previo>>

\* VentaDAO.crear: total, SEQ_VENTA.NEXTVAL, INSERT INTO VENTAS
CrearInsertarVenta(w) ==
  /\ pc[w] = "crear_venta"
  /\ LET total == TotalVenta(venta[w])
         new_id_venta == seq.venta + 1
     IN /\ seq' = [seq EXCEPT !.venta = new_id_venta]
        /\ venta' = [venta EXCEPT ![w].total = total]
        /\ tx' = [tx EXCEPT ![w].ventas = @ \cup
             {[id_venta |-> new_id_venta, total |-> total,
               es_credito |-> IF venta[w].es_credito THEN "S" ELSE "N"]}]
  /\ pc' = [pc EXCEPT ![w] = "crear_detalle"]
  /\ idx' = [idx EXCEPT ![w] = 1]
  /\ UNCHANGED <<authVars, stock, precio, ventas, detalles, creditos, pagos,
                 req, validados, res, previo>>

\* lines inserted under the id before the one drawn for the sale
IdVentaEnCurso_Anterior(w) == (CHOOSE v \in tx[w].ventas : TRUE).id_venta - 1

\* the id of the sale the open connection has inserted
IdVentaEnCurso(w) == (CHOOSE v \in tx[w].ventas : TRUE).id_venta

\* VentaDAO._insertar_detalle for venta.detalles[idx]
CrearInsertarDetalle(w) ==
  /\ pc[w] = "crear_detalle"
  /\ idx[w] <= Len(venta[w].detalles)
  /\ LET det == venta[w].detalles[idx[w]]
         new_id_det == seq.detalle + 1
     IN /\ seq' = [seq EXCEPT !.detalle = new_id_det]
        /\ venta' = [venta EXCEPT ![w].detalles[idx[w]].subtotal = SubtotalDetalle(det)]
        /\ tx' = [tx EXCEPT ![w].detalles = @ \cup
             {[id_detalle_venta |-> new_id_det,
               id_venta |-> IdVentaEnCurso(w),
               id_producto |-> det.id_producto,
               cantidad |-> det.cantidad,
               precio_unitario |-> det.precio_unitario,
               subtotal |-> SubtotalDetalle(det)]}]
  /\ idx' = [idx EXCEPT ![w] = @ + 1]
  /\ UNCHANGED <<authVars, stock, precio, ventas, detalles, creditos, pagos,
                 pc, req, validados, res, previo>>

\* VentaDAO.crear: conn.commit(); venta.id_venta = new_id_venta
CrearCommit(w) ==
  /\ pc[w] = "crear_detalle"
  /\ idx[w] > Len(venta[w].detalles)
  /\ ventas' = ventas \cup tx[w].ventas
  /\ detalles' = detalles \cup tx[w].detalles
  /\ venta' = [venta EXCEPT ![w].id_venta = IdVentaEnCurso(w)]
  /\ tx' = [tx EXCEPT ![w] = NoTx]
  /\ pc' = [pc EXCEPT ![w] = "stock"]
  /\ idx' = [idx EXCEPT ![w] = 1]
  /\ UNCHANGED <<authVars, stock, precio, creditos, pagos, seq, req, validados, res, previo>>

\* one iteration of _actualizar_stock_despues_de_venta:
\* ProductoDAO.actualizar_stock (UPDATE ... SET STOCK = :stock, commit)
ActualizarStock(w) ==
  /\ pc[w] = "stock"
  /\ idx[w] <= Len(validados[w])
  /\ LET v == validados[w][idx[w]]
         id_producto == v.producto.id_producto
     IN stock' = [p \in Productos |->
                    IF p = id_producto THEN NuevoStock(v.producto, v.item.cantidad)
                    ELSE stock[p]]
  /\ idx' = [idx EXCEPT ![w] = @ + 1]
  /\ UNCHANGED <<authVars, precio, ventas, detalles, creditos, pagos, seq,
                 pc, req, validados, venta, tx, res, previo>>

\* registrar_venta_contado returns id_venta
RetornarContado(w) ==
  /\ pc[w] = "stock"
  /\ idx[w] > Len(validados[w])
  /\ req[w].tipo = "contado"
  /\ pc' = [pc EXCEPT ![w] = "done"]
  /\ res' = [res EXCEPT ![w] = [NoRes EXCEPT !.estado = "ok",
                                             !.id_venta = venta[w].id_venta]]
  /\ UNCHANGED <<authVars, dbVars, req, validados, idx, venta, tx, previo>>

\* a credit created with nothing left to pay
CreditoDeVenta_SinSaldo(v, fecha_vencimiento) ==
  [id_venta |-> v.id_venta, saldo_total |-> v.total, saldo_pendiente |-> 0,
   fecha_vencimiento |-> fecha_vencimiento, estado |-> "VIGENTE"]

\* venta_service.py:158-164  the Credito object of a credit sale
CreditoDeVenta(v, fecha_vencimiento) ==
  [id_venta |-> v.id_venta, saldo_total |-> v.total, saldo_pendiente |-> v.total,
   fecha_vencimiento |-> fecha_vencimiento, estado |-> "VIGENTE"]

\* CreditoDAO.crear (SEQ_CREDITO.NEXTVAL, INSERT, commit), then return both ids
CrearCredito(w) ==
  /\ pc[w] = "stock"
  /\ idx[w] > Len(validados[w])
  /\ req[w].tipo = "credito"
  /\ LET credito == CreditoDeVenta(venta[w], req[w].fecha_vencimiento)
         new_id == seq.credito + 1
     IN /\ seq' = [seq EXCEPT !.credito = new_id]
        /\ creditos' = creditos \cup
             {[id_credito |-> new_id, id_venta |-> credito.id_venta,
               saldo_total |-> credito.saldo_total,
               saldo_pendiente |-> credito.saldo_pendiente,
               fecha_vencimiento |-> credito.fecha_vencimiento,
               estado |-> credito.estado]}
        /\ res' = [res EXCEPT ![w] = [NoRes EXCEPT !.estado = "ok",
                     !.id_venta = venta[w].id_venta, !.id_credito = new_id]]
  /\ pc' = [pc EXCEPT ![w] = "done"]
  /\ UNCHANGED <<authVars, stock, precio, ventas, detalles, pagos,
                 req, validados, idx, venta, tx, previo>>

\* the statement the worker is about to execute reaches the database
EnSentenciaBD(w) ==
  \/ pc[w] = "validar" /\ idx[w] <= Len(req[w].items)
       /\ ~CantidadInvalida(req[w].items[idx[w]].cantidad)
  \/ pc[w] \in {"crear_venta", "crear_detalle"}
  \/ pc[w] = "stock" /\ (idx[w] <= Len(validados[w]) \/ req[w].tipo = "credito")
  \/ pc[w] \in {"pago_leer", "pago_insertar", "pago_actualizar"}

\* a statement fails (connectivity, constraint, ...): the exception propagates,
\* finally: conn.close() drops what the connection had not committed
FallaBD(w) ==
  /\ EnSentenciaBD(w)
  /\ Falla(w, "error_bd")
  /\ UNCHANGED <<authVars, dbVars, req, validados, idx, venta, previo>>

\* the caller takes the result; the worker is free for the next call
Retornar(w) ==
  /\ pc[w] \in {"done", "failed"}
  /\ pc' = [pc EXCEPT ![w] = "idle"]
  /\ req' = [req EXCEPT ![w] = NoReq]
  /\ validados' = [validados EXCEPT ![w] = <<>>]
  /\ idx' = [idx EXCEPT ![w] = 0]
  /\ venta' = [venta EXCEPT ![w] = NoVenta]
  /\ tx' = [tx EXCEPT ![w] = NoTx]
  /\ res' = [res EXCEPT ![w] = NoRes]
  /\ previo' = [previo EXCEPT ![w] = NoPrevio]
  /\ UNCHANGED <<authVars, dbVars>>

\* ------------------------------------------------- payment registration
\* CreditoDAO.registrar_pago(pago) is called
LlamarPago(w) ==
  /\ pc[w] = "idle"
  /\ seq.pago < MaxPagos
  /\ \E id_credito \in IdsCredito, monto \in Montos :
       req' = [req EXCEPT ![w] = [NoReq EXCEPT !.tipo = "pago",
                 !.id_credito = id_credito, !.monto = monto]]
  /\ pc' = [pc EXCEPT ![w] = "pago_leer"]
  /\ previo' = [previo EXCEPT ![w] = Snapshot]
  /\ UNCHANGED <<authVars, dbVars, validados, idx, venta, tx, res>>

\* a SELECT without its WHERE clause
CreditosConId_SinWhere(id_credito) == creditos

\* credito_dao.py:178-185  SELECT ... FROM CREDITOS WHERE ID_CREDITO = :id
CreditosConId(id_credito) == {c \in creditos : c.id_credito = id_credito}

\* SELECT SALDO_PENDIENTE ...; not found raises; saldo_restante is computed
PagoLeer(w) ==
  /\ pc[w] = "pago_leer"
  /\ IF CreditosConId(req[w].id_credito) = {}
     THEN Falla(w, "credito_no_encontrado")
     ELSE \E c \in CreditosConId(req[w].id_credito) :
            /\ tx' = [tx EXCEPT ![w].saldo_restante =
                        SaldoRestante(c.saldo_pendiente, req[w].monto)]
            /\ pc' = [pc EXCEPT ![w] = "pago_insertar"]
            /\ UNCHANGED res
  /\ UNCHANGED <<authVars, dbVars, req, validados, idx, venta, previo>>

\* SEQ_PAGO.NEXTVAL, INSERT INTO PAGOS
PagoInsertar(w) ==
  /\ pc[w] = "pago_insertar"
  /\ LET new_id_pago == seq.pago + 1
     IN /\ seq' = [seq EXCEPT !.pago = new_id_pago]
        /\ tx' = [tx EXCEPT ![w].pagos = @ \cup
             {[id_pago |-> new_id_pago, id_credito |-> req[w].id_credito,
               monto |-> req[w].monto, saldo_restante |-> tx[w].saldo_restante]}]
  /\ pc' = [pc EXCEPT ![w] = "pago_actualizar"]
  /\ UNCHANGED <<authVars, stock, precio, ventas, detalles, creditos, pagos,
                 req, validados, idx, venta, res, previo>>

\* UPDATE CREDITOS SET SALDO_PENDIENTE, ESTADO; conn.commit(); return new_id_pago
PagoActualizar(w) ==
  /\ pc[w] = "pago_actualizar"
  /\ creditos' = {IF c.id_credito = req[w].id_credito
                  THEN [c EXCEPT !.saldo_pendiente = tx[w].saldo_restante,
                                 !.estado = NuevoEstado(tx[w].saldo_restante)]
                  ELSE c : c \in creditos}
  /\ pagos' = pagos \cup tx[w].pagos
  /\ res' = [res EXCEPT ![w] = [NoRes EXCEPT !.estado = "ok",
               !.id_pago = (CHOOSE p \in tx[w].pagos : TRUE).id_pago]]
  /\ tx' = [tx EXCEPT ![w] = NoTx]
  /\ pc' = [pc EXCEPT ![w] = "done"]
  /\ UNCHANGED <<authVars, stock, precio, ventas, detalles, seq,
                 req, validados, idx, venta, previo>>

\* CreditoDAO.actualizar(credito) with the credit as it is stored but for
\* estado = "MORA": the only way the code has to mark a credit overdue
ActualizarCreditoMora ==
  /\ \A w \in Workers : pc[w] = "idle"
  /\ \E id_credito \in IdsCredito :
       /\ \E c \in CreditosConId(id_credito) : c.estado # "MORA"
       /\ creditos' = {IF c.id_credito = id_credito
                       THEN [c EXCEPT !.estado = "MORA"] ELSE c : c \in creditos}
  /\ UNCHANGED <<authVars, stock, precio, ventas, detalles, pagos, seq,
                 pc, req, validados, idx, venta, tx, res, previo>>

\* ------------------------------------------------------------ deletion
\* the rows of a child table that stay when those of no parent are deleted
BorrarDetalles_Ninguno(filas, id_venta) == filas

\* venta_dao.py:113  DELETE FROM DETALLE_VENTAS WHERE ID_VENTA = :id
BorrarDetalles(filas, id_venta) == {f \in filas : f.id_venta # id_venta}

\* venta_dao.py:114  DELETE FROM VENTAS WHERE ID_VENTA = :id
BorrarVentas(filas, id_venta) == {f \in filas : f.id_venta # id_venta}

\* credito_dao.py:138  DELETE FROM PAGOS WHERE ID_CREDITO = :id
BorrarPagos(filas, id_credito) == {f \in filas : f.id_credito # id_credito}

\* credito_dao.py:139  DELETE FROM CREDITOS WHERE ID_CREDITO = :id
BorrarCreditos(filas, id_credito) == {f \in filas : f.id_credito # id_credito}

\* a registration of the store with deletions: at most two sales
LlamarVentaBorrado(w) ==
  /\ seq.venta + 1 \in IdsVenta
  /\ LlamarVentaCon(w, {"contado", "credito"}, ItemListsBorrado)

\* VentaDAO.eliminar(id_venta): both DELETEs and the commit, on one connection
EliminarVenta(w) ==
  /\ pc[w] = "idle"
  /\ \E id_venta \in IdsVenta :
       /\ detalles' = BorrarDetalles(detalles, id_venta)
       /\ ventas' = BorrarVentas(ventas, id_venta)
       /\ req' = [req EXCEPT ![w] = [NoReq EXCEPT !.tipo = "eliminar_venta",
                                                  !.id_venta = id_venta]]
  /\ previo' = [previo EXCEPT ![w] = Snapshot]
  /\ pc' = [pc EXCEPT ![w] = "done"]
  /\ res' = [res EXCEPT ![w] = [NoRes EXCEPT !.estado = "ok"]]
  /\ UNCHANGED <<authVars, stock, precio, creditos, pagos, seq,
                 validados, idx, venta, tx>>

\* CreditoDAO.eliminar(id_credito): both DELETEs and the commit, on one connection
EliminarCredito(w) ==
  /\ pc[w] = "idle"
  /\ \E id_credito \in IdsCredito :
       /\ pagos' = BorrarPagos(pagos, id_credito)
       /\ creditos' = BorrarCreditos(creditos, id_credito)
       /\ req' = [req EXCEPT ![w] = [NoReq EXCEPT !.tipo = "eliminar_credito",
                                                  !.id_credito = id_credito]]
  /\ previo' = [previo EXCEPT ![w] = Snapshot]
  /\ pc' = [pc EXCEPT ![w] = "done"]
  /\ res' = [res EXCEPT ![w] = [NoRes EXCEPT !.estado = "ok"]]
  /\ UNCHANGED <<authVars, stock, precio, ventas, detalles, seq,
                 validados, idx, venta, tx>>

\* ------------------------------------------------------ authentication
\* auth_service.py:40-46  SHA-256 of the plain password, deterministic and
\* without salt: equal passwords give equal hashes, different ones differ
HashPassword(plain_password) == <<"sha256", plain_password>>

\* Oracle UPPER() on the usernames of the model
Upper(username) ==
  CASE username = "admin" -> "ADMIN"
    [] username = "ADMIN" -> "ADMIN"
    [] username = "ana" -> "ANA"

\* usuario_dao.py:51-70  WHERE UPPER(USERNAME) = UPPER(:username)
UsuariosPorUsername(username) ==
  {u \in usuarios : Upper(u.username) = Upper(username)}

\* auth_service.py:69  usuario.estado != "ACTIVO"
EstaActivo(usuario) == usuario.estado = "ACTIVO"

\* auth_service.py:72-73  hash_ingresado != usuario.password_hash
PasswordCorrecta(usuario, password) == HashPassword(password) = usuario.password_hash

\* AuthService.crear_usuario -> UsuarioDAO.crear (SEQ_USUARIO.NEXTVAL, INSERT, commit)
CrearUsuario ==
  /\ seq.usuario < MaxUsuarios
  /\ \E username \in Usernames, password \in Passwords, id_rol \in Roles,
        estado \in Estados :
       usuarios' = usuarios \cup
         {[id_usuario |-> seq.usuario + 1, username |-> username,
           password_hash |-> HashPassword(password), estado |-> estado,
           id_rol |-> id_rol]}
  /\ seq' = [seq EXCEPT !.usuario = @ + 1]
  /\ llamada' = [NoLlamada EXCEPT !.op = "crear_usuario"]
  /\ UNCHANGED <<stock, precio, ventas, detalles, creditos, pagos,
                 pc, req, validados, idx, venta, tx, res, previo, bitacora, reloj,
                 sesiones, uuids, http>>

\* AuthService.cambiar_password -> UsuarioDAO.actualizar_password
CambiarPassword ==
  /\ \E id_usuario \in 1..MaxUsuarios, nueva \in Passwords :
       usuarios' = {IF u.id_usuario = id_usuario
                    THEN [u EXCEPT !.password_hash = HashPassword(nueva)]
                    ELSE u : u \in usuarios}
  /\ llamada' = [NoLlamada EXCEPT !.op = "cambiar_password"]
  /\ UNCHANGED <<dbVars, pc, req, validados, idx, venta, tx, res, previo,
                 bitacora, reloj, sesiones, uuids, http>>

\* UsuarioDAO.actualizar(usuario): UPDATE USUARIOS SET ..., USERNAME, ESTADO,
\* ID_ROL WHERE ID_USUARIO = :id, commit; no lookup of the new username
ActualizarUsuarioCon(id_usuario, username, estado, id_rol) ==
  /\ usuarios' = {IF u.id_usuario = id_usuario
                  THEN [u EXCEPT !.username = username, !.estado = estado,
                                 !.id_rol = id_rol]
                  ELSE u : u \in usuarios}
  /\ llamada' = [NoLlamada EXCEPT !.op = "actualizar_usuario"]
  /\ UNCHANGED <<dbVars, pc, req, validados, idx, venta, tx, res, previo,
                 bitacora, reloj, sesiones, uuids, http>>

\* UsuarioDAO.actualizar called with any id, username, status and role
ActualizarUsuario ==
  \E id_usuario \in 1..MaxUsuarios, username \in Usernames, estado \in Estados,
     id_rol \in Roles :
    ActualizarUsuarioCon(id_usuario, username, estado, id_rol)

\* UsuarioDAO.actualizar called for a stored user with its username kept:
\* the status and the role are the fields that change
ActualizarRolEstado ==
  \E u \in usuarios, estado \in Estados, id_rol \in Roles :
    ActualizarUsuarioCon(u.id_usuario, u.username, estado, id_rol)

\* usuario_dao.py:155-162  UsuarioDAO.eliminar(id_usuario):
\* DELETE FROM USUARIOS WHERE ID_USUARIO = :id, commit
EliminarUsuario ==
  /\ \E id_usuario \in 1..MaxUsuarios :
       usuarios' = {u \in usuarios : u.id_usuario # id_usuario}
  /\ llamada' = [NoLlamada EXCEPT !.op = "eliminar_usuario"]
  /\ UNCHANGED <<dbVars, pc, req, validados, idx, venta, tx, res, previo,
                 bitacora, reloj, sesiones, uuids, http>>

\* AuthService.login returns None: no row is written
LoginRechazado(username, password) ==
  /\ llamada' = [NoLlamada EXCEPT !.op = "login", !.username = username,
                                   !.password = password, !.antes = bitacora]
  /\ UNCHANGED <<bitacora, seq, reloj>>

\* BitacoraDAO.registrar_login (SEQ_BITACORA.NEXTVAL, INSERT with
\* FECHA_LOGIN = SYSDATE and no FECHA_LOGOUT, commit) and ResultadoLogin
LoginAceptado(usuario, username, password) ==
  /\ bitacora' = bitacora \cup
       {[id_bitacora |-> seq.bitacora + 1, id_usuario |-> usuario.id_usuario,
         fecha_login |-> reloj, fecha_logout |-> Ninguno]}
  /\ seq' = [seq EXCEPT !.bitacora = @ + 1]
  /\ reloj' = reloj + 1
  /\ llamada' = [NoLlamada EXCEPT !.op = "login", !.username = username,
                   !.password = password, !.antes = bitacora,
                   !.usuario = usuario.id_usuario,
                   !.id_bitacora = seq.bitacora + 1]

\* AuthService.login(username, password): buscar_por_username takes the
\* first row the query returns (fetchone), whichever it is when several match
LoginCon(username, password) ==
  IF UsuariosPorUsername(username) = {}
  THEN LoginRechazado(username, password)
  ELSE \E usuario \in UsuariosPorUsername(username) :
         IF ~EstaActivo(usuario) THEN LoginRechazado(username, password)
         ELSE IF ~PasswordCorrecta(usuario, password)
         THEN LoginRechazado(username, password)
         ELSE LoginAceptado(usuario, username, password)

\* AuthService.login called with any username and password
Login ==
  /\ seq.bitacora < MaxSesiones
  /\ reloj < MaxReloj
  /\ \E username \in Usernames, password \in Passwords : LoginCon(username, password)
  /\ UNCHANGED <<stock, precio, ventas, detalles, creditos, pagos,
                 pc, req, validados, idx, venta, tx, res, previo, usuarios,
                 sesiones, uuids, http>>

\* an UPDATE without its WHERE clause: every row gets the logout time
RegistrarLogout_SinWhere(filas, id_bitacora, ahora) ==
  {[b EXCEPT !.fecha_logout = ahora] : b \in filas}

\* bitacora_dao.py:52-58
\* UPDATE BITACORA_SESION SET FECHA_LOGOUT = SYSDATE WHERE ID_BITACORA = :id
RegistrarLogout(filas, id_bitacora, ahora) ==
  {IF b.id_bitacora = id_bitacora THEN [b EXCEPT !.fecha_logout = ahora] ELSE b :
     b \in filas}

\* AuthService.logout(id_bitacora) -> BitacoraDAO.registrar_logout, commit
LogoutCon(id_bitacora) ==
  /\ bitacora' = RegistrarLogout(bitacora, id_bitacora, reloj)
  /\ llamada' = [NoLlamada EXCEPT !.op = "logout", !.id_bitacora = id_bitacora,
                                   !.antes = bitacora]
  /\ reloj' = reloj + 1

\* AuthService.logout called with any id, of an existing row or not
Logout ==
  /\ reloj < MaxReloj
  /\ \E id_bitacora \in 1..MaxSesiones : LogoutCon(id_bitacora)
  /\ UNCHANGED <<dbVars, pc, req, validados, idx, venta, tx, res, previo, usuarios,
                 sesiones, uuids, http>>

\* ------------------------------------------------------------ web server
\* app.py:26-28
ROLE_ADMIN_ID == 1
ROLE_PARAMETRICO_ID == 2
ROLE_ESPORADICO_ID == 3

\* ID_ROL values of the users the server starts with: the three roles, NULL
\* read as 0 (Usuario.from_dict), a negative id and an id of no known role
RolesHttp == {-1, 0, 1, 2, 3, 4}

\* the SESSION_ID cookie of a request: absent (Ninguno), or any id, issued or not
CookiesSid == 0..MaxSesiones

\* an unrecognised role treated as an administrator
NivelFromUsuario_AdminPorDefecto(usuario) ==
  IF usuario.id_rol = ROLE_ADMIN_ID THEN 1
  ELSE IF usuario.id_rol = ROLE_PARAMETRICO_ID THEN 2
  ELSE IF usuario.id_rol = ROLE_ESPORADICO_ID THEN 3
  ELSE 1

\* app.py:290-303  nivel_from_usuario
NivelFromUsuario(usuario) ==
  IF usuario.id_rol = ROLE_ADMIN_ID THEN 1
  ELSE IF usuario.id_rol = ROLE_PARAMETRICO_ID THEN 2
  ELSE IF usuario.id_rol = ROLE_ESPORADICO_ID THEN 3
  ELSE 3

\* app.py:352-356  _get_current_session returns a Session
TieneSesion(sid) == sid # Ninguno /\ sid \in DOMAIN sesiones

\* a pop that leaves the entry in the map
Pop_SinQuitar(ss, sid) == ss

\* app.py:371  SESSIONS.pop(sid)
Pop(ss, sid) == [s \in DOMAIN ss \ {sid} |-> ss[s]]

\* a lookup that returns another user's row
UsuarioConId_Otro(id_usuario) == CHOOSE u \in usuarios : u.id_usuario # id_usuario

\* the Usuario object AuthService.login returned
UsuarioConId(id_usuario) == CHOOSE u \in usuarios : u.id_usuario = id_usuario

\* app.py:358-366  _create_session: uuid4 draws an id never drawn before
CreateSession(usuario, id_bitacora) ==
  /\ sesiones' = [s \in DOMAIN sesiones \cup {uuids + 1} |->
                    IF s = uuids + 1
                    THEN [usuario |-> usuario, id_bitacora |-> id_bitacora,
                          nivel |-> NivelFromUsuario(usuario)]
                    ELSE sesiones[s]]
  /\ uuids' = uuids + 1

Respuesta(ruta, sid, status, location, cuerpo) ==
  [ruta |-> ruta, sid |-> sid, status |-> status, location |-> location,
   cuerpo |-> cuerpo]

\* app.py:642-650  _require_session
RequireSession(sid) == IF TieneSesion(sid) THEN "ok" ELSE "redirect"

\* a level check that lets every session through
RequireSessionAndLevel_SinNivel(sid, allowed_levels) == RequireSession(sid)

\* app.py:317-331  _require_session_and_level
RequireSessionAndLevel(sid, allowed_levels) ==
  IF RequireSession(sid) = "redirect" THEN "redirect"
  ELSE IF sesiones[sid].nivel \notin allowed_levels THEN "forbidden"
  ELSE "ok"

\* a handler that starts with _require_session_and_level(allowed_levels) and
\* then sends its listing
Protegida(ruta, allowed_levels, cuerpo) ==
  /\ \E sid \in CookiesSid :
       http' = CASE RequireSessionAndLevel(sid, allowed_levels) = "redirect" ->
                      Respuesta(ruta, sid, 302, "/login", "")
                 [] RequireSessionAndLevel(sid, allowed_levels) = "forbidden" ->
                      Respuesta(ruta, sid, 403, "", "")
                 [] OTHER -> Respuesta(ruta, sid, 200, "", cuerpo)
  /\ UNCHANGED <<dbVars, pc, req, validados, idx, venta, tx, res, previo,
                 usuarios, bitacora, reloj, llamada, sesiones, uuids>>

\* app.py:716-750  GET /usuarios
HandleUsuarios == Protegida("/usuarios", {1}, "usuarios")

\* app.py:993-1038  GET /bitacora
HandleBitacora == Protegida("/bitacora", {1}, "bitacora")

\* app.py:751-785  GET /clientes
HandleClientes == Protegida("/clientes", {1, 2, 3}, "clientes")

\* app.py:667-680  GET /menu
HandleMenu ==
  /\ \E sid \in CookiesSid :
       http' = IF RequireSession(sid) = "redirect"
               THEN Respuesta("/menu", sid, 302, "/login", "")
               ELSE Respuesta("/menu", sid, 200, "", "menu")
  /\ UNCHANGED <<dbVars, pc, req, validados, idx, venta, tx, res, previo,
                 usuarios, bitacora, reloj, llamada, sesiones, uuids>>

\* app.py:551-578  POST /login
HandleLoginSubmit ==
  /\ seq.bitacora < MaxSesiones
  /\ reloj < MaxReloj
  /\ \E username \in Usernames, password \in Passwords :
       /\ LoginCon(username, password)
       /\ IF llamada'.usuario = Ninguno
          THEN /\ http' = Respuesta("/login", Ninguno, 401, "", "login")
               /\ UNCHANGED <<sesiones, uuids>>
          ELSE /\ CreateSession(UsuarioConId(llamada'.usuario), llamada'.id_bitacora)
               /\ http' = Respuesta("/login", Ninguno, 302, "/menu", "")
  /\ UNCHANGED <<stock, precio, ventas, detalles, creditos, pagos,
                 pc, req, validados, idx, venta, tx, res, previo, usuarios>>

\* app.py:632-640  GET /logout, with _destroy_session (368-373)
HandleLogout ==
  /\ \E sid \in CookiesSid :
       /\ IF TieneSesion(sid)
          THEN /\ reloj < MaxReloj
               /\ sesiones' = Pop(sesiones, sid)
               /\ LogoutCon(sesiones[sid].id_bitacora)
          ELSE UNCHANGED <<sesiones, bitacora, reloj, llamada>>
       /\ http' = Respuesta("/logout", sid, 302, "/login", "")
  /\ UNCHANGED <<dbVars, pc, req, validados, idx, venta, tx, res, previo,
                 usuarios, uuids>>

\* ------------------------------------------------------- specifications
\* the worker is in a sale registration
EsVentaEnCurso(w) == req[w].tipo \in {"contado", "credito"}

\* one request is handled to completion before the next is accepted
\* (app.py: HTTPServer, a single-threaded listener)
Libre(w) == \A v \in Workers : v # w => pc[v] = "idle"

\* Spec: one sale registration, handled alone, from every initial stock
Next ==
  \/ \E w \in Workers : Libre(w) /\ LlamarVenta(w)
  \/ \E w \in Workers : Libre(w) /\ ValidarItem(w)
  \/ \E w \in Workers : Libre(w) /\ ConstruirVenta(w)
  \/ \E w \in Workers : Libre(w) /\ CrearInsertarVenta(w)
  \/ \E w \in Workers : Libre(w) /\ CrearInsertarDetalle(w)
  \/ \E w \in Workers : Libre(w) /\ CrearCommit(w)
  \/ \E w \in Workers : Libre(w) /\ ActualizarStock(w)
  \/ \E w \in Workers : Libre(w) /\ RetornarContado(w)
  \/ \E w \in Workers : Libre(w) /\ CrearCredito(w)
  \/ \E w \in Workers : Libre(w) /\ FallaBD(w)
  \/ \E w \in Workers : Libre(w) /\ Retornar(w)

Spec == Init /\ [][Next]_vars

\* SpecPagos: a credit sale, then payments, each call handled alone
NextPagos ==
  \/ \E w \in Workers : Libre(w) /\ LlamarVentaCredito(w)
  \/ \E w \in Workers : Libre(w) /\ ValidarItem(w)
  \/ \E w \in Workers : Libre(w) /\ ConstruirVenta(w)
  \/ \E w \in Workers : Libre(w) /\ CrearInsertarVenta(w)
  \/ \E w \in Workers : Libre(w) /\ CrearInsertarDetalle(w)
  \/ \E w \in Workers : Libre(w) /\ CrearCommit(w)
  \/ \E w \in Workers : Libre(w) /\ ActualizarStock(w)
  \/ \E w \in Workers : Libre(w) /\ CrearCredito(w)
  \/ \E w \in Workers : Libre(w) /\ FallaBD(w)
  \/ \E w \in Workers : Libre(w) /\ Retornar(w)
  \/ \E w \in Workers : Libre(w) /\ LlamarPago(w)
  \/ \E w \in Workers : Libre(w) /\ PagoLeer(w)
  \/ \E w \in Workers : Libre(w) /\ PagoInsertar(w)
  \/ \E w \in Workers : Libre(w) /\ PagoActualizar(w)

SpecPagos == Init /\ [][NextPagos]_vars

\* SpecMora: SpecPagos where a credit may also be marked overdue between calls
NextMora ==
  \/ NextPagos
  \/ ActualizarCreditoMora

SpecMora == Init /\ [][NextMora]_vars

\* SpecBorrado: sales, payments and deletions of sales and credits, one call
\* at a time
NextBorrado ==
  \/ \E w \in Workers : Libre(w) /\ LlamarVentaBorrado(w)
  \/ \E w \in Workers : Libre(w) /\ ValidarItem(w)
  \/ \E w \in Workers : Libre(w) /\ ConstruirVenta(w)
  \/ \E w \in Workers : Libre(w) /\ CrearInsertarVenta(w)
  \/ \E w \in Workers : Libre(w) /\ CrearInsertarDetalle(w)
  \/ \E w \in Workers : Libre(w) /\ CrearCommit(w)
  \/ \E w \in Workers : Libre(w) /\ ActualizarStock(w)
  \/ \E w \in Workers : Libre(w) /\ RetornarContado(w)
  \/ \E w \in Workers : Libre(w) /\ CrearCredito(w)
  \/ \E w \in Workers : Libre(w) /\ FallaBD(w)
  \/ \E w \in Workers : Libre(w) /\ Retornar(w)
  \/ \E w \in Workers : Libre(w) /\ LlamarPago(w)
  \/ \E w \in Workers : Libre(w) /\ PagoLeer(w)
  \/ \E w \in Workers : Libre(w) /\ PagoInsertar(w)
  \/ \E w \in Workers : Libre(w) /\ PagoActualizar(w)
  \/ \E w \in Workers : Libre(w) /\ EliminarVenta(w)
  \/ \E w \in Workers : Libre(w) /\ EliminarCredito(w)

\* every product starts with the same stock
InitBorrado == Init /\ stock = [p \in Productos |-> MaxStock]

SpecBorrado == InitBorrado /\ [][NextBorrado]_vars

\* a payment issued while the other worker's payment may be running, once no
\* sale is running
LlamarPagoConc(w) ==
  /\ \A v \in Workers : ~EsVentaEnCurso(v)
  /\ LlamarPago(w)

\* the caller of a sale registration takes the result
RetornarVenta(w) ==
  /\ EsVentaEnCurso(w)
  /\ Retornar(w)

\* SpecPagosConc: a credit sale, then one payment per worker; the payments
\* interleave statement by statement up to their commits
NextPagosConc ==
  \/ \E w \in Workers : Libre(w) /\ LlamarVentaCredito(w)
  \/ \E w \in Workers : Libre(w) /\ ValidarItem(w)
  \/ \E w \in Workers : Libre(w) /\ ConstruirVenta(w)
  \/ \E w \in Workers : Libre(w) /\ CrearInsertarVenta(w)
  \/ \E w \in Workers : Libre(w) /\ CrearInsertarDetalle(w)
  \/ \E w \in Workers : Libre(w) /\ CrearCommit(w)
  \/ \E w \in Workers : Libre(w) /\ ActualizarStock(w)
  \/ \E w \in Workers : Libre(w) /\ CrearCredito(w)
  \/ \E w \in Workers : Libre(w) /\ RetornarVenta(w)
  \/ \E w \in Workers : LlamarPagoConc(w)
  \/ \E w \in Workers : PagoLeer(w)
  \/ \E w \in Workers : PagoInsertar(w)
  \/ \E w \in Workers : PagoActualizar(w)

SpecPagosConc == InitBorrado /\ [][NextPagosConc]_vars

\* SpecConc: each worker runs one registration; the two interleave statement
\* by statement (every statement is its own connection or its own commit)
NextConc ==
  \/ \E w \in Workers : LlamarVentaConc(w)
  \/ \E w \in Workers : ValidarItem(w)
  \/ \E w \in Workers : ConstruirVenta(w)
  \/ \E w \in Workers : CrearInsertarVenta(w)
  \/ \E w \in Workers : CrearInsertarDetalle(w)
  \/ \E w \in Workers : CrearCommit(w)
  \/ \E w \in Workers : ActualizarStock(w)
  \/ \E w \in Workers : RetornarContado(w)
  \/ \E w \in Workers : CrearCredito(w)
  \/ \E w \in Workers : FallaBD(w)

SpecConc == Init /\ [][NextConc]_vars

\* SpecAuth: users are created and updated, change password, log in and log out
NextAuth ==
  \/ CrearUsuario
  \/ CambiarPassword
  \/ ActualizarUsuario
  \/ Login
  \/ Logout

\* the products play no part in authentication: one initial stock
InitAuth == Init /\ stock = [p \in Productos |-> MaxStock]

SpecAuth == InitAuth /\ [][NextAuth]_vars

\* SpecHttp: the web server over a store that already holds two users;
\* HTTPServer handles one request to completion before the next
NextHttp ==
  \/ HandleLoginSubmit
  \/ HandleLogout
  \/ HandleMenu
  \/ HandleUsuarios
  \/ HandleBitacora
  \/ HandleClientes

\* the USUARIOS tables the server may start on
UsuariosIniciales ==
  {{[id_usuario |-> 1, username |-> "admin",
     password_hash |-> HashPassword("admin123"), estado |-> "ACTIVO", id_rol |-> r1],
    [id_usuario |-> 2, username |-> "ana",
     password_hash |-> HashPassword("admin123"), estado |-> "ACTIVO", id_rol |-> r2]} :
     r1 \in RolesHttp, r2 \in RolesHttp}

InitHttp ==
  /\ InitSinUsuarios
  /\ stock = [p \in Productos |-> MaxStock]
  /\ usuarios \in UsuariosIniciales

SpecHttp == InitHttp /\ [][NextHttp]_vars

\* SpecHttpUsuarios: logins, logouts and page requests, with the USUARIOS
\* rows updated and deleted through UsuarioDAO between requests
NextHttpUsuarios ==
  \/ HandleLoginSubmit
  \/ HandleLogout
  \/ HandleUsuarios
  \/ ActualizarRolEstado
  \/ EliminarUsuario

InitHttpUsuarios ==
  /\ InitSinUsuarios
  /\ stock = [p \in Productos |-> MaxStock]
  /\ usuarios \in {t \in UsuariosIniciales : \A u \in t : u.id_rol \in Roles}

SpecHttpUsuarios == InitHttpUsuarios /\ [][NextHttpUsuarios]_vars

\* SpecBitacora: AuthService.login and AuthService.logout called in any
\* order, with any arguments, over a store that holds two users
NextBitacora ==
  \/ Login
  \/ Logout

InitBitacora ==
  /\ InitSinUsuarios
  /\ stock = [p \in Productos |-> MaxStock]
  /\ usuarios \in {t \in UsuariosIniciales : \A u \in t : u.id_rol \in Roles}

SpecBitacora == InitBitacora /\ [][NextBitacora]_vars

\* ------------------------------------------------------------- claims
EsVenta(w) == req[w].tipo \in {"contado", "credito"}

Terminada(w) == pc[w] \in {"done", "failed"}

\* nothing the call could have written is in the store
SinCambios(w) ==
  /\ stock = previo[w].stock
  /\ ventas = previo[w].ventas
  /\ detalles = previo[w].detalles
  /\ creditos = previo[w].creditos

\* the call has not gone past _validar_y_cargar_productos
EnValidacion(w) == pc[w] \in {"validar", "failed"}

LineaInvalida(it) == it.cantidad <= 0 \/ it.id_producto \notin Productos

LineaSobreStock(it, st) ==
  it.id_producto \in Productos /\ it.cantidad > st[it.id_producto]

\* the errors _validar_y_cargar_productos raises
ErroresDeValidacion == {"cantidad_invalida", "producto_no_existe", "stock_insuficiente"}

\* quantity sold of product p by a line list
RECURSIVE Vendido(_, _)
Vendido(items, p) ==
  IF items = <<>> THEN 0
  ELSE (IF Head(items).id_producto = p THEN Head(items).cantidad ELSE 0)
       + Vendido(Tail(items), p)

ProductosDistintos(items) ==
  \A i, j \in 1..Len(items) : i # j => items[i].id_producto # items[j].id_producto

RECURSIVE SumaFilas(_)
\* sum of cantidad * precio_unitario over a set of DETALLE_VENTAS rows
SumaFilas(filas) ==
  IF filas = {} THEN 0
  ELSE LET d == CHOOSE x \in filas : TRUE
       IN d.cantidad * d.precio_unitario + SumaFilas(filas \ {d})

FilasDeVenta(id_venta) == {d \in detalles : d.id_venta = id_venta}

\* C1: a registration that fails after validation (during the Sale insert, a
\* SaleLine insert, a stock update or the Credit insert) leaves no Sale row, no
\* SaleLine row, no stock change and no Credit row of that call.
C1_TodoONada ==
  \A w \in Workers :
    (/\ EsVenta(w)
     /\ pc[w] = "failed"
     /\ res[w].error = "error_bd"
     /\ Len(validados[w]) = Len(req[w].items))
    => SinCambios(w)

\* C2 as stated: a cash sale with a line over the product's stock fails with
\* the insufficient-stock error and changes nothing.
C2_Original ==
  \A w \in Workers :
    (/\ req[w].tipo = "contado"
     /\ \E i \in 1..Len(req[w].items) : LineaSobreStock(req[w].items[i], previo[w].stock)
     /\ ~(pc[w] = "failed" /\ res[w].error = "error_bd"))
    => /\ EnValidacion(w)
       /\ SinCambios(w)
       /\ pc[w] = "failed" => res[w].error = "stock_insuficiente"

\* the first line over stock has no invalid line before it
SobreStockPrimero(items, st) ==
  \E i \in 1..Len(items) :
    /\ LineaSobreStock(items[i], st)
    /\ \A j \in 1..(i - 1) : ~LineaInvalida(items[j])

\* C2 amended: a cash sale with a line over the product's stock never gets
\* past validation and changes no stock, Sale or SaleLine row; it fails with
\* the insufficient-stock error when no line before the first over-stock line
\* is invalid, and with that earlier line's validation error otherwise.
C2_StockInsuficiente ==
  \A w \in Workers :
    (/\ req[w].tipo = "contado"
     /\ \E i \in 1..Len(req[w].items) : LineaSobreStock(req[w].items[i], previo[w].stock)
     /\ ~(pc[w] = "failed" /\ res[w].error = "error_bd"))
    => /\ EnValidacion(w)
       /\ SinCambios(w)
       /\ pc[w] = "failed" =>
            /\ res[w].estado = "error"
            /\ IF SobreStockPrimero(req[w].items, previo[w].stock)
               THEN res[w].error = "stock_insuficiente"
               ELSE res[w].error \in {"cantidad_invalida", "producto_no_existe"}

\* a cash sale failed on insufficient stock at its second line, after a valid first
C2_Witness ==
  \E w \in Workers :
    /\ req[w].tipo = "contado"
    /\ pc[w] = "failed"
    /\ res[w].error = "stock_insuficiente"
    /\ Len(validados[w]) = 1
    /\ Len(req[w].items) = 2

\* C3: after a successful cash sale over pairwise distinct products, every
\* product's stock is its stock before the call minus the quantity sold of it
\* in the call (nothing, for a product the call does not name).
C3_StockDescontado ==
  \A w \in Workers :
    (/\ req[w].tipo = "contado"
     /\ pc[w] = "done"
     /\ ProductosDistintos(req[w].items))
    => \A p \in Productos :
         stock[p] = previo[w].stock[p] - Vendido(req[w].items, p)

\* a cash sale of two distinct products has succeeded
C3_Witness ==
  \E w \in Workers :
    /\ req[w].tipo = "contado"
    /\ pc[w] = "done"
    /\ Len(req[w].items) = 2
    /\ ProductosDistintos(req[w].items)

\* C4: after a successful registration (cash or credit) the sale has one
\* SaleLine row per requested line, each with the product's sale price as unit
\* price and subtotal = quantity * unit price, and the Sale total is the sum
\* of quantity * unit price over its lines.
C4_TotalYSubtotales ==
  \A w \in Workers :
    (EsVenta(w) /\ pc[w] = "done")
    => /\ Cardinality({v \in ventas : v.id_venta = res[w].id_venta}) = 1
       /\ Cardinality(FilasDeVenta(res[w].id_venta)) = Len(req[w].items)
       /\ \A d \in FilasDeVenta(res[w].id_venta) :
            /\ d.precio_unitario = previo[w].precio[d.id_producto]
            /\ d.subtotal = d.cantidad * d.precio_unitario
            /\ \E i \in 1..Len(req[w].items) :
                 /\ req[w].items[i].id_producto = d.id_producto
                 /\ req[w].items[i].cantidad = d.cantidad
       /\ \A v \in ventas :
            v.id_venta = res[w].id_venta
            => v.total = SumaFilas(FilasDeVenta(res[w].id_venta))

\* a sale of two lines with different prices has succeeded
C4_Witness ==
  \E w \in Workers :
    /\ EsVenta(w)
    /\ pc[w] = "done"
    /\ Cardinality({d.precio_unitario : d \in FilasDeVenta(res[w].id_venta)}) = 2

\* C5: a successful credit sale creates exactly one Credit row; it references
\* the new sale, its total and remaining balance are the stored sale total,
\* it has the given due date and status VIGENTE, and the Sale row is flagged
\* as credit.
C5_CreditoDeLaVenta ==
  \A w \in Workers :
    (req[w].tipo = "credito" /\ pc[w] = "done")
    => /\ Cardinality(creditos \ previo[w].creditos) = 1
       /\ \A c \in creditos \ previo[w].creditos :
            /\ c.id_credito = res[w].id_credito
            /\ c.id_venta = res[w].id_venta
            /\ c.fecha_vencimiento = req[w].fecha_vencimiento
            /\ c.estado = "VIGENTE"
            /\ \E v \in ventas \ previo[w].ventas :
                 /\ v.id_venta = c.id_venta
                 /\ v.es_credito = "S"
                 /\ c.saldo_total = v.total
                 /\ c.saldo_pendiente = v.total

\* a credit sale with a positive total has succeeded
C5_Witness ==
  \E w \in Workers :
    /\ req[w].tipo = "credito"
    /\ pc[w] = "done"
    /\ \E c \in creditos : c.id_credito = res[w].id_credito /\ c.saldo_total > 0

\* the remaining balance of credit id in a set of CREDITOS rows
SaldoDe(filas, id_credito) ==
  (CHOOSE c \in filas : c.id_credito = id_credito).saldo_pendiente

Max0(n) == IF n < 0 THEN 0 ELSE n

\* C6: after a successful registerPayment the credit's remaining balance is
\* max(0, previous remaining - amount), never below 0, and its status is
\* PAGADO exactly when that balance is 0, VIGENTE otherwise.
C6_SaldoTrasPago ==
  \A w \in Workers :
    (req[w].tipo = "pago" /\ pc[w] = "done")
    => \A c \in creditos :
         c.id_credito = req[w].id_credito
         => /\ c.saldo_pendiente =
                 Max0(SaldoDe(previo[w].creditos, c.id_credito) - req[w].monto)
            /\ c.saldo_pendiente >= 0
            /\ (c.estado = "PAGADO") <=> (c.saldo_pendiente = 0)
            /\ c.estado \in {"PAGADO", "VIGENTE"}

\* a payment larger than the remaining balance has been registered
C6_Witness ==
  \E w \in Workers :
    /\ req[w].tipo = "pago"
    /\ pc[w] = "done"
    /\ \E c \in previo[w].creditos :
         /\ c.id_credito = req[w].id_credito
         /\ c.saldo_pendiente > 0
         /\ req[w].monto > c.saldo_pendiente

C10_StockNoNegativo == \A p \in Productos : stock[p] >= 0

\* both workers validated the same product against the same stock and both
\* have written their stock update
C10_Witness ==
  /\ \A w \in Workers : pc[w] = "done" /\ Len(validados[w]) = 1
  /\ validados[1][1].producto = validados[2][1].producto

\* C8 as stated: login inserts a SessionLog row exactly when the username
\* matches, ignoring case, an active user whose stored hash is the hash of the
\* given password; then it inserts exactly one row, of that user, with no
\* logout time, and returns its id with the user; otherwise it returns nothing.
C8_LoginSiYSoloSi ==
  llamada.op = "login" =>
    LET validos == {u \in usuarios :
                      /\ Upper(u.username) = Upper(llamada.username)
                      /\ u.estado = "ACTIVO"
                      /\ u.password_hash = HashPassword(llamada.password)}
        nuevas == bitacora \ llamada.antes
    IN /\ (nuevas # {}) <=> (validos # {})
       /\ nuevas = {} => llamada.usuario = Ninguno /\ llamada.id_bitacora = Ninguno
       /\ nuevas # {} =>
            /\ Cardinality(nuevas) = 1
            /\ \A b \in nuevas :
                 /\ b.id_bitacora = llamada.id_bitacora
                 /\ b.id_usuario = llamada.usuario
                 /\ b.fecha_logout = Ninguno
                 /\ \E u \in validos : u.id_usuario = b.id_usuario

\* no two users have the same username ignoring case
UsernamesUnicos ==
  \A u, v \in usuarios : Upper(u.username) = Upper(v.username) => u = v

\* what is left of C8 when the store holds no two users with the same
\* username ignoring case: there the statement holds
C8_ConUsernamesUnicos == UsernamesUnicos => C8_LoginSiYSoloSi

\* the stock of product p before the first of the workers' calls: no stock is
\* written before the first call reads it, and no write raises a stock
StockInicial(p) ==
  CHOOSE n \in {previo[w].stock[p] : w \in Workers} :
    \A w \in Workers : previo[w].stock[p] <= n

\* C11: when two cash sales that each name one and the same product have both
\* succeeded, in whatever interleaving, the product's stock is its initial
\* stock minus the sum of the two quantities.
C11_StockFinal ==
  (/\ \A w \in Workers :
        /\ req[w].tipo = "contado"
        /\ pc[w] = "done"
        /\ Len(req[w].items) = 1
   /\ req[1].items[1].id_producto = req[2].items[1].id_producto)
  => LET p == req[1].items[1].id_producto
     IN stock[p] = StockInicial(p) - req[1].items[1].cantidad - req[2].items[1].cantidad

\* C12: after any sequence of credit sales and payments, every Credit has
\* 0 <= remaining balance <= total balance.
C12_SaldoEnRango ==
  \A c \in creditos :
    0 <= c.saldo_pendiente /\ c.saldo_pendiente <= c.saldo_total

\* every Payment row in the store has a positive amount
PagosPositivos == \A p \in pagos : p.monto > 0

\* what is left of C12 when no payment of a non-positive amount was accepted:
\* there the statement holds
C12_ConPagosPositivos == PagosPositivos => C12_SaldoEnRango

\* C13: in every reachable state, right after the creation of a credit
\* included, a Credit's status is "paid" if and only if its remaining balance
\* is 0.
C13_PagadoSiiSaldoCero ==
  \A c \in creditos : (c.estado = "PAGADO") <=> (c.saldo_pendiente = 0)

\* what is left of C13: a "paid" Credit has remaining balance 0, and a Credit
\* with remaining balance 0 is "paid" unless it was created with total 0 and
\* no payment has been registered on it
C13_SalvoTotalCero ==
  \A c \in creditos :
    /\ c.estado = "PAGADO" => c.saldo_pendiente = 0
    /\ (c.saldo_pendiente = 0 /\ c.estado # "PAGADO") =>
         /\ c.saldo_total = 0
         /\ \A p \in pagos : p.id_credito # c.id_credito

\* a Credit that is "paid" is, after the step, still "paid" with balance 0
PagadoSeQueda ==
  \A c \in creditos :
    c.estado = "PAGADO" =>
      \A d \in creditos' :
        d.id_credito = c.id_credito => d.estado = "PAGADO" /\ d.saldo_pendiente = 0

\* C20: once a Credit's status is "paid", it stays "paid" with remaining
\* balance 0 through every later payment registration.
C20_PagadoEsFinal == [][PagadoSeQueda]_vars

\* what is left of C20 when the payments registered have positive amounts:
\* there a "paid" Credit stays "paid" with balance 0
C20_ConPagosPositivos == [][PagosPositivos' => PagadoSeQueda]_vars

\* a logout time that is set is not written again, and a row with a logout
\* time has a login time
LogoutUnaVez ==
  \A b \in bitacora : \A d \in bitacora' :
    d.id_bitacora = b.id_bitacora =>
      /\ b.fecha_logout # Ninguno => d.fecha_logout = b.fecha_logout
      /\ d.fecha_logout # Ninguno => d.fecha_login # Ninguno

\* C14: over any sequence of logins and logouts, the logout time of a
\* SessionLog row goes from null to a value at most once, is never overwritten
\* afterwards, and is only set on a row whose login time is set.
C14_LogoutUnaVez == [][LogoutUnaVez]_vars

\* C15: after logout(id) on an existing SessionLog row, the row with that id
\* has a logout time and is otherwise as before, and the other rows are
\* unchanged.
C15_LogoutSoloSuFila ==
  (/\ llamada.op = "logout"
   /\ \E a \in llamada.antes : a.id_bitacora = llamada.id_bitacora)
  => /\ \A a \in llamada.antes :
          a.id_bitacora # llamada.id_bitacora => a \in bitacora
     /\ \A a \in llamada.antes :
          a.id_bitacora = llamada.id_bitacora =>
            \E b \in bitacora :
              /\ b.fecha_logout # Ninguno
              /\ b = [a EXCEPT !.fecha_logout = b.fecha_logout]
     /\ Cardinality(bitacora) = Cardinality(llamada.antes)

\* a logout of one of two rows has been registered, the other row being open
C15_Witness ==
  /\ llamada.op = "logout"
  /\ Cardinality(llamada.antes) = 2
  /\ \E a \in llamada.antes :
       a.id_bitacora = llamada.id_bitacora /\ a.fecha_logout = Ninguno
  /\ \E b \in bitacora :
       b.id_bitacora # llamada.id_bitacora /\ b.fecha_logout = Ninguno

\* the pages that only an administrator may see
SoloAdmin == {"/usuarios", "/bitacora"}

\* C16: the user listing and the session-log listing are sent only to a
\* request whose session has level 1; a session of level 2 or 3 gets a 403
\* and no listing, and a request with no valid session is redirected to the
\* login page and gets no listing.
C16_SoloAdmin ==
  http.ruta \in SoloAdmin =>
    /\ http.cuerpo # "" =>
         /\ TieneSesion(http.sid)
         /\ sesiones[http.sid].nivel = 1
         /\ http.status = 200
    /\ (TieneSesion(http.sid) /\ sesiones[http.sid].nivel \in {2, 3}) =>
         http.status = 403 /\ http.cuerpo = ""
    /\ ~TieneSesion(http.sid) =>
         http.status = 302 /\ http.location = "/login" /\ http.cuerpo = ""

\* a session of level 2 has asked for the session-log listing and got a 403
C16_Witness ==
  /\ http.ruta = "/bitacora"
  /\ TieneSesion(http.sid)
  /\ sesiones[http.sid].nivel = 2
  /\ http.status = 403

\* C17: the level of a session is 1 for role 1, 2 for role 2, 3 for role 3
\* and 3 for every other role id (0, negative, unknown): always one of 1, 2,
\* 3, and never 1 or 2 for an unrecognised role.
C17_NivelDeRol ==
  \A sid \in DOMAIN sesiones :
    LET rol == sesiones[sid].usuario.id_rol
        nivel == sesiones[sid].nivel
    IN /\ nivel \in {1, 2, 3}
       /\ rol = 1 => nivel = 1
       /\ rol = 2 => nivel = 2
       /\ rol = 3 => nivel = 3
       /\ rol \notin {1, 2, 3} => nivel = 3

\* two sessions are open, one of a user of role 0 or less and one of a user of
\* a role above 3
C17_Witness ==
  \E s, t \in DOMAIN sesiones :
    /\ sesiones[s].usuario.id_rol <= 0
    /\ sesiones[t].usuario.id_rol > 3

\* the pages that need a session
ConSesion == {"/menu", "/usuarios", "/bitacora", "/clientes"}

\* the ids _create_session has issued
Emitidos == 1..uuids

\* a step removes a session only by handling a logout request that carries its
\* id, such a request removes it, a session that stays is unchanged, and an id
\* that designates no session designates none after the step
SesionHastaLogout ==
  /\ \A sid \in DOMAIN sesiones :
       /\ (http'.ruta = "/logout" /\ http'.sid = sid) <=> sid \notin DOMAIN sesiones'
       /\ sid \in DOMAIN sesiones' => sesiones'[sid] = sesiones[sid]
  /\ \A sid \in Emitidos \ DOMAIN sesiones : sid \notin DOMAIN sesiones'

\* a request for a page that needs a session is redirected to the login page
\* exactly when its id designates no session
AutenticaSiEnMapa ==
  http.ruta \in ConSesion =>
    (~TieneSesion(http.sid) <=> (http.status = 302 /\ http.location = "/login"))

\* C18: a session created by a login stays in the session map, unchanged, and
\* authenticates the requests that carry its id until a logout request with
\* that id is handled; from then on the id designates no session and the
\* requests that carry it are redirected to the login page.
C18_SesionHastaLogout == [][SesionHastaLogout]_vars /\ []AutenticaSiEnMapa

\* a request carrying the id of a logged-out session has been redirected to
\* the login page while another session is open
C18_Witness ==
  /\ http.ruta \in ConSesion
  /\ http.sid \in Emitidos \ DOMAIN sesiones
  /\ http.status = 302
  /\ DOMAIN sesiones # {}

\* C19: after any sequence of user creations and user updates, no two User
\* rows have usernames that are equal ignoring case.
C19_UsernameUnico ==
  \A u, v \in usuarios :
    u.id_usuario # v.id_usuario => Upper(u.username) # Upper(v.username)

RECURSIVE SumaMontos(_)
\* sum of MONTO over a set of PAGOS rows
SumaMontos(filas) ==
  IF filas = {} THEN 0
  ELSE LET p == CHOOSE x \in filas : TRUE
       IN p.monto + SumaMontos(filas \ {p})

\* the Payment rows of a credit, and those registered up to row p
PagosDe(id_credito) == {p \in pagos : p.id_credito = id_credito}

PagosHasta(p) == {q \in PagosDe(p.id_credito) : q.id_pago <= p.id_pago}

\* C21: for a Credit of total T and payments a1..an, each > 0, registered one
\* after another, after the k-th payment the remaining balance is
\* max(0, T - (a1 + ... + ak)), the k-th Payment row's remaining-after equals
\* that value, and the status is "paid" exactly when a1 + ... + ak >= T and
\* "current" otherwise.
C21_SaldoTrasPagos ==
  \A c \in creditos :
    (PagosDe(c.id_credito) # {} /\ \A p \in PagosDe(c.id_credito) : p.monto > 0)
    => /\ c.saldo_pendiente = Max0(c.saldo_total - SumaMontos(PagosDe(c.id_credito)))
       /\ \A p \in PagosDe(c.id_credito) :
            p.saldo_restante = Max0(c.saldo_total - SumaMontos(PagosHasta(p)))
       /\ IF SumaMontos(PagosDe(c.id_credito)) >= c.saldo_total
          THEN c.estado = "PAGADO"
          ELSE c.estado = "VIGENTE"

\* a credit has been paid off by two positive payments, the first partial
C21_Witness ==
  \E c \in creditos :
    /\ c.estado = "PAGADO"
    /\ Cardinality(PagosDe(c.id_credito)) = 2
    /\ \A p \in PagosDe(c.id_credito) : p.monto > 0
    /\ \E p \in PagosDe(c.id_credito) : p.saldo_restante > 0

\* C22: registerPayment for a credit id that matches no Credit row fails
\* with the not-found error (its SELECT answering), inserts no Payment row and
\* modifies no Credit row.
C22_CreditoNoEncontrado ==
  \A w \in Workers :
    (/\ req[w].tipo = "pago"
     /\ \A c \in previo[w].creditos : c.id_credito # req[w].id_credito)
    => /\ pc[w] \in {"pago_leer", "failed"}
       /\ (pc[w] = "failed" /\ res[w].error # "error_bd") =>
            res[w].estado = "error" /\ res[w].error = "credito_no_encontrado"
       /\ pagos = previo[w].pagos
       /\ creditos = previo[w].creditos
       /\ tx[w].pagos = {}

\* a payment on an id of no credit has failed while another credit exists
C22_Witness ==
  \E w \in Workers :
    /\ req[w].tipo = "pago"
    /\ pc[w] = "failed"
    /\ res[w].error = "credito_no_encontrado"
    /\ creditos # {}

\* C23: registerPayment on a Credit whose status is "overdue" leaves it
\* "current" when the amount is smaller than its remaining balance and "paid"
\* when the amount is at least the remaining balance.
C23_PagoEnMora ==
  \A w \in Workers :
    (req[w].tipo = "pago" /\ pc[w] = "done")
    => \A a \in previo[w].creditos :
         (a.id_credito = req[w].id_credito /\ a.estado = "MORA")
         => \E c \in creditos :
              /\ c.id_credito = a.id_credito
              /\ c.estado = IF req[w].monto < a.saldo_pendiente
                            THEN "VIGENTE" ELSE "PAGADO"

\* a partial payment has been registered on an overdue credit
C23_Witness ==
  \E w \in Workers :
    /\ req[w].tipo = "pago"
    /\ pc[w] = "done"
    /\ req[w].monto > 0
    /\ \E a \in previo[w].creditos :
         /\ a.id_credito = req[w].id_credito
         /\ a.estado = "MORA"
         /\ req[w].monto < a.saldo_pendiente

\* C25: a sale call with several lines naming the same product succeeds only
\* if the sum of those lines' quantities is at most the product's stock, and
\* on success the product's stock has decreased by that sum.
C25_LineasRepetidas ==
  \A w \in Workers :
    (/\ EsVenta(w)
     /\ pc[w] = "done"
     /\ ~ProductosDistintos(req[w].items))
    => \A p \in Productos :
         /\ Vendido(req[w].items, p) <= previo[w].stock[p]
         /\ stock[p] = previo[w].stock[p] - Vendido(req[w].items, p)

\* the VENTAS and DETALLE_VENTAS rows committed since worker w's call was issued
VentasNuevas(w) == ventas \ previo[w].ventas

DetallesNuevos(w) == detalles \ previo[w].detalles

\* C27: in every committed state the Sale row of a registration exists if and
\* only if all its SaleLine rows exist: VentaDAO.crear commits the Sale and
\* its lines together, and a failure while inserting the Sale or a line leaves
\* neither the Sale nor any line.
C27_VentaYLineasJuntas ==
  \A w \in Workers :
    EsVenta(w) =>
      /\ VentasNuevas(w) = {} => DetallesNuevos(w) = {}
      /\ \A v \in VentasNuevas(w) :
           /\ VentasNuevas(w) = {v}
           /\ \A d \in DetallesNuevos(w) : d.id_venta = v.id_venta
           /\ Cardinality(DetallesNuevos(w)) = Len(req[w].items)
      /\ (pc[w] = "failed" /\ venta[w].id_venta = NoVenta.id_venta) =>
           VentasNuevas(w) = {} /\ DetallesNuevos(w) = {}

\* VentaDAO.crear failed on its second line, after inserting the Sale and a line
C27_Witness ==
  \E w \in Workers :
    /\ EsVenta(w)
    /\ pc[w] = "failed"
    /\ res[w].error = "error_bd"
    /\ Len(venta[w].detalles) = 2
    /\ idx[w] = 2
    /\ venta[w].id_venta = NoVenta.id_venta
    /\ seq.detalle = 1

\* C24: over sale and credit creation and deletion, every SaleLine references
\* an existing Sale and every Payment an existing Credit; deleting a Sale
\* removes all of its SaleLines, deleting a Credit removes all of its
\* Payments, and the lines of other sales and the payments of other credits
\* are unchanged.
C24_BorradoEnCascada ==
  /\ \A d \in detalles : \E v \in ventas : v.id_venta = d.id_venta
  /\ \A p \in pagos : \E c \in creditos : c.id_credito = p.id_credito
  /\ \A w \in Workers :
       (req[w].tipo = "eliminar_venta" /\ pc[w] = "done") =>
         /\ \A v \in ventas : v.id_venta # req[w].id_venta
         /\ \A d \in detalles : d.id_venta # req[w].id_venta
         /\ \A d \in previo[w].detalles :
              d.id_venta # req[w].id_venta => d \in detalles
         /\ pagos = previo[w].pagos
  /\ \A w \in Workers :
       (req[w].tipo = "eliminar_credito" /\ pc[w] = "done") =>
         /\ \A c \in creditos : c.id_credito # req[w].id_credito
         /\ \A p \in pagos : p.id_credito # req[w].id_credito
         /\ \A p \in previo[w].pagos :
              p.id_credito # req[w].id_credito => p \in pagos
         /\ detalles = previo[w].detalles

\* a sale of two lines has been deleted while another sale keeps its line
C24_Witness ==
  \E w \in Workers :
    /\ req[w].tipo = "eliminar_venta"
    /\ pc[w] = "done"
    /\ Cardinality({d \in previo[w].detalles : d.id_venta = req[w].id_venta}) = 2
    /\ detalles # {}

\* no call is running
Quieto == \A w \in Workers : pc[w] \in {"idle", "done", "failed"}

CreditosDeVenta(id_venta) == {c \in creditos : c.id_venta = id_venta}

\* C28: over sale registration, credit registration and sale deletion, every
\* Credit references an existing Sale whose credit flag is set, every Sale
\* whose credit flag is set owns exactly one Credit, and cash sales own none.
C28_CreditoYVenta ==
  Quieto =>
    /\ \A c \in creditos :
         \E v \in ventas : v.id_venta = c.id_venta /\ v.es_credito = "S"
    /\ \A v \in ventas :
         Cardinality(CreditosDeVenta(v.id_venta)) = IF v.es_credito = "S" THEN 1 ELSE 0

\* the same, of the credits alone and while no credit sale has failed: what
\* the deletion of a sale does to its credit
C28_CreditoConVenta ==
  (Quieto /\ \A w \in Workers : pc[w] # "failed") =>
    \A c \in creditos :
      \E v \in ventas : v.id_venta = c.id_venta /\ v.es_credito = "S"

\* both workers have completed a payment of a positive amount on one credit
DosPagosHechos ==
  /\ \A w \in Workers : req[w].tipo = "pago" /\ pc[w] = "done" /\ req[w].monto > 0
  /\ req[1].id_credito = req[2].id_credito

\* the remaining balance of the credit before the first of the two payments:
\* the call issued first saw no Payment row
SaldoAntesDePagos(id_credito) ==
  LET w == CHOOSE v \in Workers : previo[v].pagos = {}
  IN SaldoDe(previo[w].creditos, id_credito)

\* the Payment row inserted last
UltimoPago(id_credito) ==
  CHOOSE p \in PagosDe(id_credito) :
    \A q \in PagosDe(id_credito) : q.id_pago <= p.id_pago

\* C26: for two payments a1 and a2 on one Credit of remaining balance R, in
\* every interleaving of their read, insert and update steps, once both have
\* completed the remaining balance is max(0, R - a1 - a2) and equals the
\* remaining-after of the Payment row inserted last.
C26_PagosConcurrentes ==
  DosPagosHechos =>
    \A c \in creditos :
      c.id_credito = req[1].id_credito =>
        /\ c.saldo_pendiente =
             Max0(SaldoAntesDePagos(c.id_credito) - req[1].monto - req[2].monto)
        /\ c.saldo_pendiente = UltimoPago(c.id_credito).saldo_restante

\* the SessionLog row a session-map entry refers to: of the entry's user, open
FilaDeSesion(sid) ==
  {b \in bitacora : /\ b.id_bitacora = sesiones[sid].id_bitacora
                    /\ b.id_usuario = sesiones[sid].usuario.id_usuario
                    /\ b.fecha_logout = Ninguno}

\* C29: after any sequence of login and logout requests, every entry of the
\* session map refers to a SessionLog row of that entry's user whose logout
\* time is null, and no two entries refer to the same row.
C29_SesionYBitacora ==
  /\ \A sid \in DOMAIN sesiones : FilaDeSesion(sid) # {}
  /\ \A s1 \in DOMAIN sesiones, s2 \in DOMAIN sesiones :
       sesiones[s1].id_bitacora = sesiones[s2].id_bitacora => s1 = s2

\* two logins and the logout of one of the two sessions: one entry is left
\* in the map, next to a closed row
C29_Witness ==
  /\ http.ruta = "/logout"
  /\ Cardinality(DOMAIN sesiones) = 1
  /\ Cardinality(bitacora) = 2
  /\ \E b \in bitacora : b.fecha_logout # Ninguno

\* the stored rows of the user a session belongs to
UsuarioDeSesion(sid) ==
  {u \in usuarios : u.id_usuario = sesiones[sid].usuario.id_usuario}

\* C30: in every reachable state, every session of the session map belongs
\* to a user whose stored status is active, and the session's level is the
\* level derived from the role id stored for that user now, also after the
\* user's row is updated or deleted while the session exists.
C30_SesionAlDia ==
  \A sid \in DOMAIN sesiones :
    /\ UsuarioDeSesion(sid) # {}
    /\ \A u \in UsuarioDeSesion(sid) :
         /\ u.estado = "ACTIVO"
         /\ sesiones[sid].nivel = NivelFromUsuario(u)

====
